---- MODULE Spec2Model ----
(***************************************************************************)
(* A model of the trace-driven set-associative cache simulator             *)
(* (cache_simulator.h, cache_simulator.cpp, main.cpp).                     *)
(*                                                                         *)
(* The single mutable entity of the program is the Cache structure; it is  *)
(* the variable `cache`, a record with the fields of struct Cache.  Every  *)
(* function of the program that takes `Cache &cache` is an operator that   *)
(* takes the record and yields the record as the function leaves it.       *)
(* A `Slot *` is the way number of the slot inside its set, and nullptr is *)
(* the way number -1.                                                      *)
(***************************************************************************)
EXTENDS Integers, Sequences, FiniteSets, TLC

VARIABLES
    cache,        \* struct Cache of main(), after cacheSetUp
    trace,        \* the trace records main() has consumed so far
    last,         \* the arguments and locals of the last cacheSimulator call
    installedAt,  \* history: per slot, the trace position of its last install
    dec,          \* the address decoder's inputs and outputs (SpecDecode)
    args,         \* main()'s parsed command line and what validateArguments said
    storedSince   \* history: per slot, a store was applied since its last install

vars == <<cache, trace, last, installedAt, dec, args, storedSince>>

---------------------------------------------------------------------------
(* Bounds of the model *)

\* number of trace records main() reads before end of input
MaxTrace == 4

---------------------------------------------------------------------------
(* Machine arithmetic *)

nullptr == -1

RECURSIVE Pow2(_)
Pow2(n) == IF n <= 0 THEN 1 ELSE 2 * Pow2(n - 1)

\* int x = log2(n): the double result truncated; exact on powers of two
RECURSIVE Log2(_)
Log2(n) == IF n <= 1 THEN 0 ELSE 1 + Log2(n \div 2)

\* x & y on two's complement ints (x \div 2 rounds down, x % 2 is the low bit)
RECURSIVE BitAnd(_, _)
BitAnd(x, y) ==
    IF x = 0 \/ y = 0 THEN 0
    ELSE IF x = -1 /\ y = -1 THEN -1
    ELSE (x % 2) * (y % 2) + 2 * BitAnd(x \div 2, y \div 2)

\* x >> k on an int, as g++ compiles it: the arithmetic shift (k < 32)
ShiftRight(x, k) ==
    IF k <= 30 THEN x \div Pow2(k) ELSE (x \div Pow2(30)) \div Pow2(k - 30)

\* A uint32_t is the pair <<high 16 bits, low 16 bits>>.
Uint32(hi, lo) == <<hi, lo>>

\* the uint32_t address of main() passed as the int parameter of
\* cacheSimulator: the value modulo 2^32 in [-2^31, 2^31)
IntOfUint32(a) ==
    IF a[1] < 32768 THEN a[1] * 65536 + a[2]
    ELSE (a[1] - 65536) * 65536 + a[2]

\* the int stored in a uint32_t (load_ts, access_ts): the value modulo 2^32
Uint32OfInt(x) == Uint32((x \div 65536) % 65536, x % 65536)

\* a < b on two uint32_t
Uint32Less(a, b) == a[1] < b[1] \/ (a[1] = b[1] /\ a[2] < b[2])

\* the largest int
IntMax == 2147483647

\* a + b on two ints as the machine adds them: a sum out of the range of int
\* wraps around (the build is g++ without optimisation: a 32-bit add)
AddInt(a, b) ==
    IF a > 0 /\ b > 0 /\ a > IntMax - b
    THEN ((a - IntMax) - 1) + ((b - IntMax) - 1)
    ELSE IF a < 0 /\ b < 0 /\ a < (0 - IntMax) - 1 - b
    THEN ((a + IntMax) + 1) + ((b + IntMax) + 1)
    ELSE a + b

---------------------------------------------------------------------------
(* Argument validation *)

checkPowTwo(x) ==
    IF x < 1 THEN FALSE
    ELSE IF BitAnd(x, x - 1) = 0 THEN TRUE
    ELSE FALSE

\* validateArguments without the test of write-back against no-write-allocate
validateArgumentsNoConflict(numSets, numBlocks, blockSize, handleMiss, handleWrite, handleEviction) ==
    IF numSets < 1 \/ ~checkPowTwo(numSets) THEN 1
    ELSE IF numBlocks < 1 \/ ~checkPowTwo(numBlocks) THEN 1
    ELSE IF blockSize < 4 \/ ~checkPowTwo(blockSize) THEN 1
    ELSE IF handleMiss # "write-allocate" /\ handleMiss # "no-write-allocate" THEN 1
    ELSE IF handleWrite # "write-through" /\ handleWrite # "write-back" THEN 1
    ELSE IF handleEviction # "lru" /\ handleEviction # "fifo" THEN 1
    ELSE 0

\* 0 for success, 1 for bad input
validateArguments(numSets, numBlocks, blockSize, handleMiss, handleWrite, handleEviction) ==
    IF numSets < 1 \/ ~checkPowTwo(numSets) THEN 1
    ELSE IF numBlocks < 1 \/ ~checkPowTwo(numBlocks) THEN 1
    ELSE IF blockSize < 4 \/ ~checkPowTwo(blockSize) THEN 1
    ELSE IF handleMiss # "write-allocate" /\ handleMiss # "no-write-allocate" THEN 1
    ELSE IF handleWrite # "write-through"
            /\ (IF handleWrite = "write-back"
                THEN handleMiss = "no-write-allocate"
                ELSE TRUE) THEN 1
    ELSE IF handleEviction # "lru" /\ handleEviction # "fifo" THEN 1
    ELSE 0

---------------------------------------------------------------------------
(* Address decoding *)

\* calculateIndex with the mask one bit too wide: (1 << (index + 1)) - 1
calculateIndexWideMask(address, c) ==
    LET offset  == Log2(c.numBytes)
        index   == Log2(c.numSets)
        shifted == ShiftRight(address, offset)
        mask    == Pow2(index + 1) - 1
    IN  BitAnd(shifted, mask)

calculateIndex(address, c) ==
    LET offset  == Log2(c.numBytes)
        index   == Log2(c.numSets)
        shifted == ShiftRight(address, offset)
        mask    == Pow2(index) - 1
    IN  BitAnd(shifted, mask)

\* calculateTag shifting one bit too far
calculateTagShiftOneMore(address, c) ==
    LET offset == Log2(c.numBytes)
        index  == Log2(c.numSets)
    IN  ShiftRight(address, offset + index + 1)

calculateTag(address, c) ==
    LET offset == Log2(c.numBytes)
        index  == Log2(c.numSets)
    IN  ShiftRight(address, offset + index)

---------------------------------------------------------------------------
(* Construction *)

EmptySlot == [tag |-> 0, valid |-> FALSE, dirty |-> FALSE,
              load_ts |-> Uint32(0, 0), access_ts |-> Uint32(0, 0)]

cacheSetUp(numSets, numBlocks, numBytes, handleMiss, handleWrite, handleEviction) ==
    [ sets           |-> [i \in 0 .. numSets - 1 |-> [j \in 0 .. numBlocks - 1 |-> EmptySlot]],
      numSets        |-> numSets,
      numBlocks      |-> numBlocks,
      numBytes       |-> numBytes,
      handleMiss     |-> handleMiss,
      handleWrite    |-> handleWrite,
      handleEviction |-> handleEviction,
      loadCount      |-> 0,
      storeCount     |-> 0,
      loadHits       |-> 0,
      loadMisses     |-> 0,
      storeHits      |-> 0,
      storeMisses    |-> 0,
      totalCycles    |-> 0 ]

---------------------------------------------------------------------------
(* Lookup and replacement *)

\* the first slot of the set, in iteration order, that is valid with the tag
RECURSIVE findBlockFrom(_, _, _)
findBlockFrom(set, tag, w) ==
    IF w \notin DOMAIN set THEN nullptr
    ELSE IF set[w].valid /\ set[w].tag = tag THEN w
    ELSE findBlockFrom(set, tag, w + 1)

\* findBlock that gives up after the first slot of the set
findBlockFirstSlotOnly(tag, index, c) ==
    IF c.sets[index][0].valid /\ c.sets[index][0].tag = tag THEN 0 ELSE nullptr

findBlock(tag, index, c) == findBlockFrom(c.sets[index], tag, 0)

\* the range-for of findLRUBlock: temp moves only on a strictly smaller stamp
RECURSIVE scanLRU(_, _, _)
scanLRU(set, w, temp) ==
    IF w \notin DOMAIN set THEN temp
    ELSE scanLRU(set, w + 1, IF Uint32Less(set[w].access_ts, set[temp].access_ts) THEN w ELSE temp)

\* the range-for of findFIFOBlock
RECURSIVE scanFIFO(_, _, _)
scanFIFO(set, w, temp) ==
    IF w \notin DOMAIN set THEN temp
    ELSE scanFIFO(set, w + 1, IF Uint32Less(set[w].load_ts, set[temp].load_ts) THEN w ELSE temp)

\* flushVictim charging a flat 100 cycles whatever the block size
flushVictimFlatCost(index, temp, c) ==
    IF c.sets[index][temp].dirty /\ c.handleWrite = "write-back"
    THEN [c EXCEPT !.sets[index][temp].valid = FALSE,
                   !.sets[index][temp].dirty = FALSE,
                   !.totalCycles = AddInt(@, 100)]
    ELSE c

\* flushVictim that charges the write-back but leaves the slot marked dirty
flushVictimKeepsDirty(index, temp, c) ==
    IF c.sets[index][temp].dirty /\ c.handleWrite = "write-back"
    THEN [c EXCEPT !.sets[index][temp].valid = FALSE,
                   !.totalCycles = AddInt(@, (100 * c.numBytes) \div 4)]
    ELSE c

\* the victim is written back when it is dirty under write-back
flushVictim(index, temp, c) ==
    IF c.sets[index][temp].dirty /\ c.handleWrite = "write-back"
    THEN [c EXCEPT !.sets[index][temp].valid = FALSE,
                   !.sets[index][temp].dirty = FALSE,
                   !.totalCycles = AddInt(@, (100 * c.numBytes) \div 4)]
    ELSE c

\* findLRUBlock whose scan moves on a stamp that is smaller or equal: of the
\* slots with the smallest stamp it ends on the last one
findLRUBlockLastMinimum(index, c) ==
    LET set  == c.sets[index]
        temp == CHOOSE w \in DOMAIN set :
                    /\ \A v \in DOMAIN set : ~Uint32Less(set[v].access_ts, set[w].access_ts)
                    /\ \A v \in DOMAIN set : set[v].access_ts = set[w].access_ts => v <= w
    IN  [temp |-> temp, cache |-> flushVictim(index, temp, c)]

\* both yield the slot chosen and the cache as the call leaves it
findLRUBlock(index, c) ==
    LET temp == scanLRU(c.sets[index], 0, 0)
    IN  [temp |-> temp, cache |-> flushVictim(index, temp, c)]

\* findFIFOBlock comparing the access stamps, as findLRUBlock does
findFIFOBlockByAccess(index, c) ==
    LET temp == scanLRU(c.sets[index], 0, 0)
    IN  [temp |-> temp, cache |-> flushVictim(index, temp, c)]

findFIFOBlock(index, c) ==
    LET temp == scanFIFO(c.sets[index], 0, 0)
    IN  [temp |-> temp, cache |-> flushVictim(index, temp, c)]

\* firstInvalidFrom that ends on the highest invalid way at or after w
firstInvalidFromTop(set, w) ==
    IF \E v \in DOMAIN set : v >= w /\ set[v].valid = FALSE
    THEN CHOOSE v \in DOMAIN set :
             /\ v >= w /\ set[v].valid = FALSE
             /\ \A u \in DOMAIN set : (u >= w /\ set[u].valid = FALSE) => u <= v
    ELSE nullptr

RECURSIVE firstInvalidFrom(_, _)
firstInvalidFrom(set, w) ==
    IF w \notin DOMAIN set THEN nullptr
    ELSE IF set[w].valid = FALSE THEN w
    ELSE firstInvalidFrom(set, w + 1)

\* findReplacementBlock that fills the last invalid slot of the set
findReplacementBlockLastInvalid(index, c) ==
    LET set == c.sets[index]
    IN  IF \E w \in DOMAIN set : set[w].valid = FALSE
        THEN [temp |-> CHOOSE w \in DOMAIN set :
                          /\ set[w].valid = FALSE
                          /\ \A v \in DOMAIN set : set[v].valid = FALSE => v <= w,
              cache |-> c]
        ELSE IF c.handleEviction = "lru" THEN findLRUBlock(index, c)
        ELSE findFIFOBlock(index, c)

findReplacementBlock(index, c) ==
    LET temp == firstInvalidFrom(c.sets[index], 0)
    IN  IF temp # nullptr THEN [temp |-> temp, cache |-> c]
        ELSE IF c.handleEviction = "lru" THEN findLRUBlock(index, c)
        ELSE findFIFOBlock(index, c)

---------------------------------------------------------------------------
(* Access handling *)

\* installBlock that forgets temp->valid = true
installBlockNotValid(index, tag, r) ==
    LET c3   == [r.cache EXCEPT !.totalCycles = AddInt(@, 1)]
        temp == r.temp
        c4   == [c3 EXCEPT !.sets[index][temp].tag = tag]
    IN  IF c4.handleEviction = "lru"
        THEN [c4 EXCEPT !.sets[index][temp].access_ts = Uint32OfInt(c4.totalCycles)]
        ELSE [c4 EXCEPT !.sets[index][temp].load_ts = Uint32OfInt(c4.totalCycles)]

\* the tail shared by the load miss and the write-allocate store miss:
\* time for updating the cache, then valid, tag and the policy's timestamp
installBlock(index, tag, r) ==
    LET c3   == [r.cache EXCEPT !.totalCycles = AddInt(@, 1)]
        temp == r.temp
        c4   == [c3 EXCEPT !.sets[index][temp].valid = TRUE,
                           !.sets[index][temp].tag = tag]
    IN  IF c4.handleEviction = "lru"
        THEN [c4 EXCEPT !.sets[index][temp].access_ts = Uint32OfInt(c4.totalCycles)]
        ELSE [c4 EXCEPT !.sets[index][temp].load_ts = Uint32OfInt(c4.totalCycles)]

\* handleLoad charging a hit like the install step of a miss does not: 2 cycles
handleLoadHitCostTwo(c, index, tag, hit) ==
    LET c1 == [c EXCEPT !.loadCount = @ + 1]
    IN  IF hit # nullptr
        THEN LET c2 == [c1 EXCEPT !.loadHits = @ + 1, !.totalCycles = AddInt(@, 2)]
             IN  IF c2.handleEviction = "lru"
                 THEN [c2 EXCEPT !.sets[index][hit].access_ts = Uint32OfInt(c2.totalCycles)]
                 ELSE c2
        ELSE LET c2 == [c1 EXCEPT !.loadMisses = @ + 1,
                                  !.totalCycles = AddInt(@, (100 * c1.numBytes) \div 4)]
             IN  installBlock(index, tag, findReplacementBlock(index, c2))

\* handleLoad stamping the hit slot before the hit's cycle is counted
handleLoadStampBeforeCost(c, index, tag, hit) ==
    LET c1 == [c EXCEPT !.loadCount = @ + 1]
    IN  IF hit # nullptr
        THEN LET c2 == [c1 EXCEPT !.loadHits = @ + 1, !.totalCycles = AddInt(@, 1)]
             IN  IF c2.handleEviction = "lru"
                 THEN [c2 EXCEPT !.sets[index][hit].access_ts = Uint32OfInt(c1.totalCycles)]
                 ELSE c2
        ELSE LET c2 == [c1 EXCEPT !.loadMisses = @ + 1,
                                  !.totalCycles = AddInt(@, (100 * c1.numBytes) \div 4)]
             IN  installBlock(index, tag, findReplacementBlock(index, c2))

handleLoad(c, index, tag, hit) ==
    LET c1 == [c EXCEPT !.loadCount = @ + 1]
    IN  IF hit # nullptr
        THEN LET c2 == [c1 EXCEPT !.loadHits = @ + 1, !.totalCycles = AddInt(@, 1)]
             IN  IF c2.handleEviction = "lru"
                 THEN [c2 EXCEPT !.sets[index][hit].access_ts = Uint32OfInt(c2.totalCycles)]
                 ELSE c2
        ELSE LET c2 == [c1 EXCEPT !.loadMisses = @ + 1,
                                  !.totalCycles = AddInt(@, (100 * c1.numBytes) \div 4)]
             IN  installBlock(index, tag, findReplacementBlock(index, c2))

\* handleStore that allocates on every store miss, whatever handleMiss says
handleStoreAlwaysAllocate(c, index, tag, hit) ==
    LET c1 == [c EXCEPT !.storeCount = @ + 1]
    IN  IF hit # nullptr
        THEN LET c2 == [c1 EXCEPT !.storeHits = @ + 1,
                                  !.sets[index][hit].access_ts = Uint32OfInt(c1.totalCycles)]
             IN  IF c2.handleWrite = "write-back"
                 THEN [c2 EXCEPT !.sets[index][hit].dirty = TRUE, !.totalCycles = AddInt(@, 1)]
                 ELSE [c2 EXCEPT !.totalCycles = AddInt(@, 100)]
        ELSE LET c2 == [c1 EXCEPT !.storeMisses = @ + 1]
                 c3 == [c2 EXCEPT !.totalCycles = AddInt(@, 100 * (c2.numBytes \div 4))]
                 c4 == installBlock(index, tag, findReplacementBlock(index, c3))
                 temp == findReplacementBlock(index, c3).temp
             IN  IF c4.handleWrite = "write-back"
                 THEN [c4 EXCEPT !.sets[index][temp].dirty = TRUE]
                 ELSE c4

\* handleStore stamping the hit slot after the hit's cost is counted
handleStoreStampAfterCost(c, index, tag, hit) ==
    LET c1 == [c EXCEPT !.storeCount = @ + 1]
    IN  IF hit # nullptr
        THEN LET c2 == [c1 EXCEPT !.storeHits = @ + 1]
                 c3 == IF c2.handleWrite = "write-back"
                       THEN [c2 EXCEPT !.sets[index][hit].dirty = TRUE, !.totalCycles = AddInt(@, 1)]
                       ELSE [c2 EXCEPT !.totalCycles = AddInt(@, 100)]
             IN  [c3 EXCEPT !.sets[index][hit].access_ts = Uint32OfInt(c3.totalCycles)]
        ELSE LET c2 == [c1 EXCEPT !.storeMisses = @ + 1]
             IN  IF c2.handleMiss = "no-write-allocate"
                 THEN [c2 EXCEPT !.totalCycles = AddInt(@, 100)]
                 ELSE LET c3 == [c2 EXCEPT !.totalCycles = AddInt(@, 100 * (c2.numBytes \div 4))]
                          c4 == installBlock(index, tag, findReplacementBlock(index, c3))
                          temp == findReplacementBlock(index, c3).temp
                      IN  IF c4.handleWrite = "write-back"
                          THEN [c4 EXCEPT !.sets[index][temp].dirty = TRUE]
                          ELSE c4

\* handleStore whose write-allocate install never marks the new slot dirty
handleStoreCleanInstall(c, index, tag, hit) ==
    LET c1 == [c EXCEPT !.storeCount = @ + 1]
    IN  IF hit # nullptr
        THEN LET c2 == [c1 EXCEPT !.storeHits = @ + 1,
                                  !.sets[index][hit].access_ts = Uint32OfInt(c1.totalCycles)]
             IN  IF c2.handleWrite = "write-back"
                 THEN [c2 EXCEPT !.sets[index][hit].dirty = TRUE, !.totalCycles = AddInt(@, 1)]
                 ELSE [c2 EXCEPT !.totalCycles = AddInt(@, 100)]
        ELSE LET c2 == [c1 EXCEPT !.storeMisses = @ + 1]
             IN  IF c2.handleMiss = "no-write-allocate"
                 THEN [c2 EXCEPT !.totalCycles = AddInt(@, 100)]
                 ELSE LET c3 == [c2 EXCEPT !.totalCycles = AddInt(@, 100 * (c2.numBytes \div 4))]
                      IN  installBlock(index, tag, findReplacementBlock(index, c3))

handleStore(c, index, tag, hit) ==
    LET c1 == [c EXCEPT !.storeCount = @ + 1]
    IN  IF hit # nullptr
        THEN LET c2 == [c1 EXCEPT !.storeHits = @ + 1,
                                  !.sets[index][hit].access_ts = Uint32OfInt(c1.totalCycles)]
             IN  IF c2.handleWrite = "write-back"
                 THEN [c2 EXCEPT !.sets[index][hit].dirty = TRUE, !.totalCycles = AddInt(@, 1)]
                 ELSE [c2 EXCEPT !.totalCycles = AddInt(@, 100)]
        ELSE LET c2 == [c1 EXCEPT !.storeMisses = @ + 1]
             IN  IF c2.handleMiss = "no-write-allocate"
                 THEN [c2 EXCEPT !.totalCycles = AddInt(@, 100)]
                 ELSE LET c3 == [c2 EXCEPT !.totalCycles = AddInt(@, 100 * (c2.numBytes \div 4))]
                          c4 == installBlock(index, tag, findReplacementBlock(index, c3))
                          temp == findReplacementBlock(index, c3).temp
                      IN  IF c4.handleWrite = "write-back"
                          THEN [c4 EXCEPT !.sets[index][temp].dirty = TRUE]
                          ELSE c4

\* cacheSimulator that skips a record whose character is neither 'l' nor 's'
cacheSimulatorSkipsUnknown(c, loadStore, address) ==
    LET index == calculateIndex(address, c)
        tag   == calculateTag(address, c)
        hit   == findBlock(tag, index, c)
    IN  IF loadStore = "l" THEN handleLoad(c, index, tag, hit)
        ELSE IF loadStore = "s" THEN handleStore(c, index, tag, hit)
        ELSE c

\* the cache after cacheSimulator(cache, loadStore, address)
cacheSimulator(c, loadStore, address) ==
    LET index == calculateIndex(address, c)
        tag   == calculateTag(address, c)
        hit   == findBlock(tag, index, c)
    IN  IF loadStore = "l" THEN handleLoad(c, index, tag, hit)
        ELSE handleStore(c, index, tag, hit)

---------------------------------------------------------------------------
(* The program: main() *)

\* command-line arguments tried; validateArguments filters them
ArgNumSets   == {0, 1, 2, 3}
ArgNumBlocks == {0, 1, 2, 3}
ArgNumBytes  == {2, 4, 6, 8}
ArgMiss      == {"write-allocate", "no-write-allocate", "allocate"}
ArgWrite     == {"write-through", "write-back", "write-around"}
ArgEviction  == {"lru", "fifo", "random"}

\* operation characters and addresses of the trace records
OpChars == {"l", "s"}
Addrs   == {Uint32(0, 0), Uint32(0, 4), Uint32(0, 16), Uint32(32768, 0)}

NoAccess == [loadStore |-> "-", address |-> 0, index |-> 0, tag |-> 0, hit |-> nullptr]
NoDecode == [numSets |-> 1, numBytes |-> 4, a |-> Uint32(0, 0), b |-> Uint32(0, 0),
             done |-> FALSE, indexA |-> 0, tagA |-> 0, indexB |-> 0, tagB |-> 0]

\* block sizes large enough for the cycle total to leave the range of int
\* within a few accesses (100 * numBytes itself stays in range)
ArgLargeBytes == {16777216}

\* operation characters other than 'l' and 's' included, on two blocks
AnyOpChars == {"l", "s", "x"}
AnyOpAddrs == {Uint32(0, 0), Uint32(0, 16)}

\* `Cache cache;` as declared: no sets, empty strings, zero statistics (the
\* three geometry ints are indeterminate and never read before cacheSetUp)
NoCache ==
    [ sets |-> << >>, numSets |-> 0, numBlocks |-> 0, numBytes |-> 0,
      handleMiss |-> "", handleWrite |-> "", handleEviction |-> "",
      loadCount |-> 0, storeCount |-> 0, loadHits |-> 0, loadMisses |-> 0,
      storeHits |-> 0, storeMisses |-> 0, totalCycles |-> 0 ]

CommandLine(numSets, numBlocks, numBytes, handleMiss, handleWrite, handleEviction) ==
    [ numSets |-> numSets, numBlocks |-> numBlocks, numBytes |-> numBytes,
      handleMiss |-> handleMiss, handleWrite |-> handleWrite,
      handleEviction |-> handleEviction, validated |-> FALSE, rc |-> 0 ]

\* what validateArguments returns on the parsed command line
Validation(a) ==
    validateArguments(a.numSets, a.numBlocks, a.numBytes,
                      a.handleMiss, a.handleWrite, a.handleEviction)

\* the cache cacheSetUp builds from the parsed command line
SetUp(a) ==
    cacheSetUp(a.numSets, a.numBlocks, a.numBytes,
               a.handleMiss, a.handleWrite, a.handleEviction)

\* a history value for every slot of the cache c
PerSlot(c, x) == [i \in DOMAIN c.sets |-> [j \in DOMAIN c.sets[i] |-> x]]

\* the state when main() enters its read loop, block size drawn from bytes
EnterLoop(bytes) ==
    /\ \E numSets \in ArgNumSets, numBlocks \in ArgNumBlocks, numBytes \in bytes,
          handleMiss \in ArgMiss, handleWrite \in ArgWrite, handleEviction \in ArgEviction :
          LET a == CommandLine(numSets, numBlocks, numBytes, handleMiss, handleWrite, handleEviction)
          IN  /\ Validation(a) = 0
              /\ args = [a EXCEPT !.validated = TRUE, !.rc = 0]
              /\ cache = SetUp(a)
    /\ trace = << >>
    /\ last = NoAccess
    /\ installedAt = PerSlot(cache, 0)
    /\ storedSince = PerSlot(cache, FALSE)
    /\ dec = NoDecode

Init == EnterLoop(ArgNumBytes)

\* one pass of the read loop: a record is read and simulated
ReadAccess(loadStore, a) ==
    LET address == IntOfUint32(a)
        index   == calculateIndex(address, cache)
        tag     == calculateTag(address, cache)
        hit     == findBlock(tag, index, cache)
        after   == cacheSimulator(cache, loadStore, address)
    IN  /\ args.validated /\ args.rc = 0
        /\ Len(trace) < MaxTrace
        /\ cache' = after
        /\ trace' = Append(trace, [loadStore |-> loadStore, address |-> a])
        /\ last' = [loadStore |-> loadStore, address |-> address,
                    index |-> index, tag |-> tag, hit |-> hit]
        /\ installedAt' =
              [i \in DOMAIN installedAt |-> [j \in DOMAIN installedAt[i] |->
                  IF i = index /\ hit = nullptr /\ after.sets[i][j] # cache.sets[i][j]
                  THEN Len(trace) + 1
                  ELSE installedAt[i][j]]]
        /\ storedSince' =
              [i \in DOMAIN storedSince |-> [j \in DOMAIN storedSince[i] |->
                  IF i = index /\ hit = j /\ loadStore # "l"
                  THEN TRUE
                  ELSE IF i = index /\ hit = nullptr /\ after.sets[i][j] # cache.sets[i][j]
                  THEN loadStore # "l"
                  ELSE storedSince[i][j]]]
        /\ UNCHANGED <<dec, args>>

Next == \E loadStore \in OpChars, a \in Addrs : ReadAccess(loadStore, a)

Spec == Init /\ [][Next]_vars

\* the same program on the large block sizes
InitLarge == EnterLoop(ArgLargeBytes)

SpecLarge == InitLarge /\ [][Next]_vars

\* the same program reading any operation character
NextAnyOp == \E loadStore \in AnyOpChars, a \in AnyOpAddrs : ReadAccess(loadStore, a)

SpecAnyOp == Init /\ [][NextAnyOp]_vars

---------------------------------------------------------------------------
(* main() from its first line: the command line is parsed, validated, and  *)
(* only then is the cache built and the trace read.                        *)

InitValidate ==
    /\ \E numSets \in ArgNumSets, numBlocks \in ArgNumBlocks, numBytes \in ArgNumBytes,
          handleMiss \in ArgMiss, handleWrite \in ArgWrite, handleEviction \in ArgEviction :
          args = CommandLine(numSets, numBlocks, numBytes, handleMiss, handleWrite, handleEviction)
    /\ cache = NoCache
    /\ trace = << >>
    /\ last = NoAccess
    /\ installedAt = PerSlot(cache, 0)
    /\ storedSince = PerSlot(cache, FALSE)
    /\ dec = NoDecode

\* if (validateArguments(...) == 1) return 1; else cacheSetUp
Validate ==
    /\ ~args.validated
    /\ args' = [args EXCEPT !.validated = TRUE, !.rc = Validation(args)]
    /\ IF Validation(args) = 1
       THEN UNCHANGED <<cache, installedAt, storedSince>>
       ELSE /\ cache' = SetUp(args)
            /\ installedAt' = PerSlot(SetUp(args), 0)
            /\ storedSince' = PerSlot(SetUp(args), FALSE)
    /\ UNCHANGED <<trace, last, dec>>

NextValidate == Validate \/ Next

SpecValidate == InitValidate /\ [][NextValidate]_vars

---------------------------------------------------------------------------
(* The address decoder on its own: calculateIndex and calculateTag applied *)
(* to two addresses under one geometry.  The geometries are those          *)
(* validateArguments accepts with offset bits + index bits below 32 (the   *)
(* shift is undefined from 32 on).                                         *)

DecNumSets  == {1, 2, 3, 8, 32768}
DecNumBytes == {2, 4, 8, 12, 64, 65536}
DecHi       == {0, 1, 32767, 32768, 65535}
DecLo       == {0, 3, 4, 8, 32, 256, 65535}
DecAddrs    == {Uint32(hi, lo) : hi \in DecHi, lo \in DecLo}

InitDecode ==
    /\ cache = cacheSetUp(1, 1, 4, "write-allocate", "write-through", "lru")
    /\ trace = << >>
    /\ last = NoAccess
    /\ installedAt = PerSlot(cache, 0)
    /\ storedSince = PerSlot(cache, FALSE)
    /\ args = CommandLine(1, 1, 4, "write-allocate", "write-through", "lru")
    /\ \E numSets \in DecNumSets, numBytes \in DecNumBytes, a \in DecAddrs, b \in DecAddrs :
          /\ validateArguments(numSets, 1, numBytes, "write-allocate", "write-through", "lru") = 0
          /\ dec = [NoDecode EXCEPT !.numSets = numSets, !.numBytes = numBytes,
                                    !.a = a, !.b = b]

\* the two calls at the head of cacheSimulator, for address a and for address b
Decode ==
    /\ ~dec.done
    /\ dec' = [dec EXCEPT !.done = TRUE,
                          !.indexA = calculateIndex(IntOfUint32(dec.a), dec),
                          !.tagA   = calculateTag(IntOfUint32(dec.a), dec),
                          !.indexB = calculateIndex(IntOfUint32(dec.b), dec),
                          !.tagB   = calculateTag(IntOfUint32(dec.b), dec)]
    /\ UNCHANGED <<cache, trace, last, installedAt, args, storedSince>>

NextDecode == Decode

SpecDecode == InitDecode /\ [][NextDecode]_vars

---------------------------------------------------------------------------
(* Properties of the simulation (Spec) *)

\* index and tag of the p-th trace record, as cacheSimulator decodes it
TraceIndex(p) == calculateIndex(IntOfUint32(trace[p].address), cache)
TraceTag(p)   == calculateTag(IntOfUint32(trace[p].address), cache)

\* the p-th trace record installs its block when it misses
TraceInstalls(p) == trace[p].loadStore = "l" \/ cache.handleMiss = "write-allocate"

Resident(index, tag) == \E w \in DOMAIN cache.sets[index] :
    cache.sets[index][w].valid /\ cache.sets[index][w].tag = tag

Ways(index) == DOMAIN cache.sets[index]

\* this step is an access (not a stutter)
Accessing == trace' # trace

\* C1: under lru, in a trace of accesses to numBlocks+1 distinct tags of one
\* set, whose last record brings the last new tag, the block of the first
\* record is still resident at the end whenever a later access hit it while
\* some other resident block was not accessed from that hit on.
C1_LRUTouchedFirstBlockSurvives ==
    LET n == Len(trace)
    IN  ( /\ cache.handleEviction = "lru"
          /\ n >= 3
          /\ \A p \in 1 .. n : TraceIndex(p) = TraceIndex(1)
          /\ Cardinality({TraceTag(p) : p \in 1 .. n}) = cache.numBlocks + 1
          /\ \A p \in 1 .. n - 1 : TraceTag(p) # TraceTag(n)
          /\ TraceInstalls(1)
          /\ \E p \in 2 .. n - 1 :
                /\ TraceTag(p) = TraceTag(1)
                /\ \E g \in 1 .. p - 1 :
                      /\ TraceTag(g) # TraceTag(1)
                      /\ TraceInstalls(g)
                      /\ \A q \in p .. n - 1 : TraceTag(q) # TraceTag(g) )
        => Resident(TraceIndex(1), TraceTag(1))

\* C2: under fifo, a miss in a set whose slots are all valid replaces the
\* slot that was installed earliest in the trace, whatever hits came between.
C2_FIFOEvictsEarliestInstalled ==
    [][ ( /\ Accessing
          /\ cache.handleEviction = "fifo"
          /\ last'.hit = nullptr
          /\ \A w \in Ways(last'.index) : cache.sets[last'.index][w].valid )
        => \A w \in Ways(last'.index) :
              cache'.sets[last'.index][w] # cache.sets[last'.index][w]
              => \A v \in Ways(last'.index) \ {w} :
                    installedAt[last'.index][w] < installedAt[last'.index][v]
      ]_vars

\* a full two-way fifo set: A and B loaded, A hit, then a third tag loaded,
\* which lands in A's slot (way 0) although A was the block used last
C2_Witness ==
    /\ cache.handleEviction = "fifo"
    /\ cache.numBlocks = 2
    /\ Len(trace) = 4
    /\ \A p \in 1 .. 4 : TraceIndex(p) = TraceIndex(1)
    /\ trace[1].loadStore = "l" /\ trace[2].loadStore = "l" /\ trace[4].loadStore = "l"
    /\ TraceTag(2) # TraceTag(1)
    /\ TraceTag(3) = TraceTag(1)
    /\ TraceTag(4) \notin {TraceTag(1), TraceTag(2)}
    /\ installedAt[TraceIndex(1)][0] = 4
    /\ installedAt[TraceIndex(1)][1] = 2
    /\ ~Resident(TraceIndex(1), TraceTag(1))
    /\ cache.loadHits + cache.storeHits = 1

\* the access recorded in `last` installed a block
Installed(acc) ==
    /\ acc.hit = nullptr
    /\ acc.loadStore = "l" \/ cache.handleMiss = "write-allocate"

\* C3: the access right after one that installed a block, to the same
\* address, is a hit: one of loadHits, storeHits goes up by one and neither
\* loadMisses nor storeMisses moves.
C3_ReaccessAfterInstallHits ==
    [][ ( /\ Accessing
          /\ Len(trace) > 0
          /\ Installed(last)
          /\ last'.address = last.address )
        => /\ cache'.loadMisses = cache.loadMisses
           /\ cache'.storeMisses = cache.storeMisses
           /\ \/ cache'.loadHits = cache.loadHits + 1 /\ cache'.storeHits = cache.storeHits
              \/ cache'.storeHits = cache.storeHits + 1 /\ cache'.loadHits = cache.loadHits
      ]_vars

\* a one-way write-back cache: a store installs a dirty block, an access to
\* another block evicts it through the flush (valid reset, then set again),
\* and the same address again hits
C3_Witness ==
    /\ Len(trace) = 3
    /\ cache.numBlocks = 1
    /\ cache.handleWrite = "write-back"
    /\ trace[1].loadStore = "s"
    /\ TraceIndex(2) = TraceIndex(1) /\ TraceTag(2) # TraceTag(1)
    /\ trace[3].address = trace[2].address
    /\ last.hit # nullptr
    /\ cache.loadMisses + cache.storeMisses = 2
    /\ cache.loadHits + cache.storeHits = 1

\* the cycles of the write-back of one block
FlushCost == (100 * cache.numBytes) \div 4

\* what the access recorded in acc costs when nothing is written back
NormalCost(acc) ==
    IF acc.loadStore = "l"
    THEN IF acc.hit # nullptr THEN 1 ELSE (100 * cache.numBytes) \div 4 + 1
    ELSE IF acc.hit # nullptr
         THEN IF cache.handleWrite = "write-back" THEN 1 ELSE 100
         ELSE IF cache.handleMiss = "no-write-allocate" THEN 100
              ELSE (100 * cache.numBytes) \div 4 + 1

\* this step is a miss whose install replaces a valid dirty block
ReplacesDirty ==
    /\ last'.hit = nullptr
    /\ \E w \in Ways(last'.index) :
          /\ cache.sets[last'.index][w].valid
          /\ cache.sets[last'.index][w].dirty
          /\ cache'.sets[last'.index][w].tag # cache.sets[last'.index][w].tag

IsConfig(numSets, numBlocks, numBytes, handleMiss, handleWrite, handleEviction) ==
    /\ cache.numSets = numSets
    /\ cache.numBlocks = numBlocks
    /\ cache.numBytes = numBytes
    /\ cache.handleMiss = handleMiss
    /\ cache.handleWrite = handleWrite
    /\ cache.handleEviction = handleEviction

Rec(loadStore, lo) == [loadStore |-> loadStore, address |-> Uint32(0, lo)]

\* C4: an access costs its normal cost plus 100*numBytes/4 exactly when it
\* replaces a valid dirty block (only under write-back), and nothing more
\* otherwise; 's 0x0', 'l 0x4' on one 4-byte slot, write-allocate,
\* write-back, lru ends with totalCycles = 302.
C4_FlushChargedOncePerDirtyEviction ==
    /\ [][ Accessing =>
             /\ ReplacesDirty => cache.handleWrite = "write-back"
             /\ cache'.totalCycles - cache.totalCycles
                   = NormalCost(last') + (IF ReplacesDirty THEN FlushCost ELSE 0)
         ]_vars
    /\ []( ( /\ IsConfig(1, 1, 4, "write-allocate", "write-back", "lru")
             /\ trace = <<Rec("s", 0), Rec("l", 4)>> )
           => cache.totalCycles = 302 )

\* the end of the trace 's 0x0', 'l 0x4': the dirty block of the store is gone
C4_Witness ==
    /\ IsConfig(1, 1, 4, "write-allocate", "write-back", "lru")
    /\ trace = <<Rec("s", 0), Rec("l", 4)>>
    /\ cache.totalCycles = 302
    /\ cache.sets[0][0].valid /\ cache.sets[0][0].tag = 1 /\ ~cache.sets[0][0].dirty

\* C5: under no-write-allocate a store miss changes nothing of the cache but
\* storeCount + 1, storeMisses + 1 and totalCycles + 100.
C5_NoWriteAllocateStoreMissFrame ==
    [][ ( /\ Accessing
          /\ cache.handleMiss = "no-write-allocate"
          /\ last'.loadStore # "l"
          /\ last'.hit = nullptr )
        => cache' = [cache EXCEPT !.storeCount = @ + 1,
                                  !.storeMisses = @ + 1,
                                  !.totalCycles = @ + 100]
      ]_vars

\* a store miss under no-write-allocate on a set that holds a block
C5_Witness ==
    /\ cache.handleMiss = "no-write-allocate"
    /\ Len(trace) >= 2
    /\ last.loadStore = "s"
    /\ last.hit = nullptr
    /\ \E w \in Ways(last.index) : cache.sets[last.index][w].valid
    /\ ~Resident(last.index, last.tag)

\* C6: no set holds two valid slots with the same tag.
C6_TagsUniqueInSet ==
    \A i \in DOMAIN cache.sets : \A w \in Ways(i), v \in Ways(i) :
        (w # v /\ cache.sets[i][w].valid /\ cache.sets[i][v].valid)
        => cache.sets[i][w].tag # cache.sets[i][v].tag

\* a full two-way set whose second way was hit after a replacement in the set
C6_Witness ==
    /\ cache.numBlocks = 2
    /\ Len(trace) = 4
    /\ last.hit = 1
    /\ cache.sets[last.index][0].valid
    /\ installedAt[last.index][0] = 3
    /\ installedAt[last.index][1] = 2

\* C10: a load hit costs 1 cycle and a load miss that replaces no dirty block
\* 100*numBytes/4 + 1; on one 4-byte slot, write-allocate, write-through, lru,
\* 'l 0x0', 'l 0x4' gives 2 load misses and 202 cycles, and 'l 0x0', 'l 0x0'
\* gives 1 load miss, 1 load hit and 102 cycles.
C10_LoadCycleCost ==
    /\ [][ (Accessing /\ last'.loadStore = "l") =>
             /\ last'.hit # nullptr => cache'.totalCycles = cache.totalCycles + 1
             /\ (last'.hit = nullptr /\ ~ReplacesDirty)
                   => cache'.totalCycles = cache.totalCycles + (100 * cache.numBytes) \div 4 + 1
         ]_vars
    /\ []( IsConfig(1, 1, 4, "write-allocate", "write-through", "lru") =>
             /\ trace = <<Rec("l", 0), Rec("l", 4)>>
                   => /\ cache.loadMisses = 2 /\ cache.loadHits = 0
                      /\ cache.totalCycles = 202
             /\ trace = <<Rec("l", 0), Rec("l", 0)>>
                   => /\ cache.loadMisses = 1 /\ cache.loadHits = 1
                      /\ cache.totalCycles = 102 )

\* the end of the trace 'l 0x0', 'l 0x0': a miss, then a hit
C10_Witness ==
    /\ IsConfig(1, 1, 4, "write-allocate", "write-through", "lru")
    /\ trace = <<Rec("l", 0), Rec("l", 0)>>
    /\ last.hit = 0
    /\ cache.loadMisses = 1 /\ cache.loadHits = 1
    /\ cache.totalCycles = 102

---------------------------------------------------------------------------
(* Properties of the address decoder (SpecDecode) *)

OffsetBits == Log2(dec.numBytes)
IndexBits  == Log2(dec.numSets)

\* the unsigned value a >> k of a uint32_t, 1 <= k < 32
UnsignedShiftRight(a, k) ==
    IF k <= 16 THEN a[1] * Pow2(16 - k) + a[2] \div Pow2(k)
    ELSE a[1] \div Pow2(k - 16)

\* C7: for every 32-bit address, 0x80000000 and above included, the
\* tag is non-negative and is the unsigned address >> (offset + index bits).
C7_TagIsUnsignedShift ==
    dec.done =>
        /\ dec.tagA >= 0
        /\ dec.tagA = UnsignedShiftRight(dec.a, OffsetBits + IndexBits)

\* C8: for every 32-bit address the index lies in [0, numSets).
C8_IndexInRange ==
    dec.done =>
        /\ 0 <= dec.indexA /\ dec.indexA < dec.numSets
        /\ 0 <= dec.indexB /\ dec.indexB < dec.numSets

\* an address with the top bit set, decoded to the last set of several
C8_Witness ==
    /\ dec.done
    /\ dec.a[1] >= 32768
    /\ dec.numSets > 1
    /\ dec.indexA = dec.numSets - 1

\* a and b agree on every bit above the offset bits
SameBlock(a, b) ==
    UnsignedShiftRight(a, OffsetBits) = UnsignedShiftRight(b, OffsetBits)

---------------------------------------------------------------------------
(* Properties of the statistics, the validation and the policies *)

\* the seven statistics of the cache c
Statistics(c) ==
    <<c.loadCount, c.storeCount, c.loadHits, c.loadMisses,
      c.storeHits, c.storeMisses, c.totalCycles>>

\* C11: the seven statistics start at 0, are never negative, and never
\* decrease across an access; totalCycles grows on every access.
C11_StatisticsMonotone ==
    /\ []( /\ trace = << >> => \A k \in 1 .. 7 : Statistics(cache)[k] = 0
           /\ \A k \in 1 .. 7 : Statistics(cache)[k] >= 0 )
    /\ [][ Accessing =>
             /\ \A k \in 1 .. 7 : Statistics(cache')[k] >= Statistics(cache)[k]
             /\ cache'.totalCycles > cache.totalCycles
         ]_vars

\* write-back together with no-write-allocate, in a command line or a cache
Conflict(x) == x.handleWrite = "write-back" /\ x.handleMiss = "no-write-allocate"

\* C12: a command line that combines write-back with no-write-allocate is
\* answered 1, no cache is built and no record is read for it; no cache is
\* ever in the state write-back with no-write-allocate.
C12_WriteBackNoWriteAllocateRejected ==
    /\ (args.validated /\ Conflict(args))
          => (args.rc = 1 /\ cache = NoCache /\ trace = << >>)
    /\ ~Conflict(cache)

\* the conflict on an otherwise valid command line, refused
C12_Witness ==
    /\ args.validated
    /\ Conflict(args)
    /\ args.numSets = 2 /\ args.numBlocks = 2 /\ args.numBytes = 8
    /\ args.handleEviction = "lru"
    /\ args.rc = 1
    /\ cache = NoCache

IsPowerOfTwo(x) == \E k \in 0 .. 30 : x = Pow2(k)

\* C13: a command line is accepted only if its block size is a power of two
\* and greater than four; a block size of exactly 4 is refused.
C13_BlockSizeGreaterThanFour ==
    (args.validated /\ args.rc = 0)
        => (IsPowerOfTwo(args.numBytes) /\ args.numBytes > 4)

---------------------------------------------------------------------------
(* Properties of the choice of the slot a miss fills *)

\* the ways of the set that are not valid
InvalidWays(index) == {w \in Ways(index) : ~cache.sets[index][w].valid}

\* the smallest way of a non-empty set of ways
LowestWay(S) == CHOOSE w \in S : \A v \in S : w <= v

\* every slot but way w of set index is the same before and after the step
OnlySlotChanges(index, w) ==
    \A i \in DOMAIN cache.sets : \A v \in Ways(i) :
        <<i, v>> # <<index, w>> => cache'.sets[i][v] = cache.sets[i][v]

\* C14: a miss that installs into a set with an invalid slot fills the
\* lowest-numbered invalid way, changes no other slot, and costs exactly
\* 100*numBytes/4 + 1 cycles (nothing is written back).
C14_EmptySlotFilledFirst ==
    [][ ( /\ Accessing
          /\ Installed(last')
          /\ InvalidWays(last'.index) # {} )
        => LET w == LowestWay(InvalidWays(last'.index))
           IN  /\ cache'.sets[last'.index][w].valid
               /\ cache'.sets[last'.index][w].tag = last'.tag
               /\ OnlySlotChanges(last'.index, w)
               /\ cache'.totalCycles
                     = cache.totalCycles + (100 * cache.numBytes) \div 4 + 1
      ]_vars

\* a two-way set filled by two misses: way 0 first, then way 1, and the
\* block of the first miss is still in way 0
C14_Witness ==
    /\ cache.numBlocks = 2
    /\ Len(trace) = 2
    /\ TraceIndex(1) = TraceIndex(2)
    /\ TraceInstalls(1) /\ TraceInstalls(2)
    /\ installedAt[last.index][0] = 1
    /\ installedAt[last.index][1] = 2
    /\ cache.sets[last.index][0].valid /\ cache.sets[last.index][0].tag = TraceTag(1)
    /\ cache.sets[last.index][1].valid /\ cache.sets[last.index][1].tag = TraceTag(2)

\* the stamp the configured policy compares
PolicyStamp(slot) ==
    IF cache.handleEviction = "lru" THEN slot.access_ts ELSE slot.load_ts

\* the ways of the set whose policy stamp is the minimum of the set
OldestWays(index) ==
    {w \in Ways(index) : \A v \in Ways(index) :
        ~Uint32Less(PolicyStamp(cache.sets[index][v]), PolicyStamp(cache.sets[index][w]))}

\* C15: a miss that installs into a set whose slots are all valid replaces
\* the lowest-numbered way among those with the minimum access stamp (lru)
\* or the minimum load stamp (fifo), and no other slot.
C15_VictimIsLowestOldestWay ==
    [][ ( /\ Accessing
          /\ Installed(last')
          /\ InvalidWays(last'.index) = {} )
        => LET w == LowestWay(OldestWays(last'.index))
           IN  /\ cache'.sets[last'.index][w].valid
               /\ cache'.sets[last'.index][w].tag = last'.tag
               /\ cache'.sets[last'.index][w] # cache.sets[last'.index][w]
               /\ OnlySlotChanges(last'.index, w)
      ]_vars

\* lru, two ways: after two installs a store hit on way 0 leaves both ways
\* with the same access stamp, and the next miss replaces way 0
C15_Witness ==
    /\ cache.handleEviction = "lru"
    /\ cache.numBlocks = 2
    /\ Len(trace) = 4
    /\ trace[3].loadStore = "s"
    /\ trace[3].address = trace[1].address
    /\ cache.storeHits = 1
    /\ last.hit = nullptr
    /\ installedAt[last.index][0] = 4
    /\ installedAt[last.index][1] = 2
    /\ cache.sets[last.index][0].tag = last.tag

---------------------------------------------------------------------------
(* Properties of the timestamps and of the store paths *)

\* the way this step touched: the one hit, or the one the install filled
TouchedWay ==
    IF last'.hit # nullptr THEN last'.hit
    ELSE CHOOSE w \in Ways(last'.index) :
             cache'.sets[last'.index][w].valid /\ cache'.sets[last'.index][w].tag = last'.tag

\* C16: under lru, after a load hit or an install by a miss, the touched
\* slot's access_ts is the totalCycles the access leaves and is greater than
\* the access_ts of every other slot of the cache; under fifo a load hit
\* changes no slot.
C16_LRUStampIsNewestAfterLoadHitOrInstall ==
    [][ Accessing =>
          /\ ( /\ cache.handleEviction = "lru"
               /\ \/ last'.loadStore = "l" /\ last'.hit # nullptr
                  \/ Installed(last') )
             => /\ cache'.sets[last'.index][TouchedWay].access_ts
                      = Uint32OfInt(cache'.totalCycles)
                /\ \A i \in DOMAIN cache'.sets : \A v \in DOMAIN cache'.sets[i] :
                      <<i, v>> # <<last'.index, TouchedWay>>
                      => Uint32Less(cache'.sets[i][v].access_ts,
                                    cache'.sets[last'.index][TouchedWay].access_ts)
          /\ ( /\ cache.handleEviction = "fifo"
               /\ last'.loadStore = "l" /\ last'.hit # nullptr )
             => cache'.sets = cache.sets
      ]_vars

\* lru, two ways both valid: a load hit on way 0 after way 1 was installed
C16_Witness ==
    /\ cache.handleEviction = "lru"
    /\ cache.numBlocks = 2
    /\ Len(trace) = 3
    /\ last.loadStore = "l"
    /\ last.hit = 0
    /\ cache.sets[last.index][1].valid
    /\ cache.sets[last.index][0].access_ts = Uint32OfInt(cache.totalCycles)
    /\ Uint32Less(cache.sets[last.index][1].access_ts, cache.sets[last.index][0].access_ts)

\* C17: a store hit changes, of the whole cache, only storeCount + 1,
\* storeHits + 1, the hit slot's access_ts (the totalCycles before the
\* access's cost), and then under write-back the slot's dirty flag (true)
\* and totalCycles + 1, under write-through totalCycles + 100 with the slot
\* not dirty.
C17_StoreHitFrame ==
    [][ ( /\ Accessing
          /\ last'.loadStore # "l"
          /\ last'.hit # nullptr )
        => /\ cache' =
                [cache EXCEPT
                    !.storeCount = @ + 1,
                    !.storeHits = @ + 1,
                    !.sets[last'.index][last'.hit].access_ts = Uint32OfInt(cache.totalCycles),
                    !.sets[last'.index][last'.hit].dirty =
                        IF cache.handleWrite = "write-back" THEN TRUE ELSE @,
                    !.totalCycles =
                        IF cache.handleWrite = "write-back" THEN @ + 1 ELSE @ + 100]
           /\ cache.handleWrite = "write-through"
                 => ~cache'.sets[last'.index][last'.hit].dirty
      ]_vars

\* fifo, write-back: a block installed by a load is hit by a store; the slot
\* is dirty, stamped with the total before the hit's one cycle
C17_Witness ==
    /\ cache.handleEviction = "fifo"
    /\ cache.handleWrite = "write-back"
    /\ Len(trace) = 2
    /\ trace[1].loadStore = "l"
    /\ last.loadStore = "s"
    /\ last.hit # nullptr
    /\ cache.storeHits = 1
    /\ cache.sets[last.index][last.hit].dirty
    /\ cache.sets[last.index][last.hit].access_ts = Uint32OfInt(cache.totalCycles - 1)
    /\ cache.sets[last.index][last.hit].load_ts = Uint32OfInt(cache.totalCycles - 1)

\* C18: a store miss under write-allocate leaves the block in a valid slot
\* with the new tag whose policy stamp is the totalCycles the access leaves,
\* costs exactly 100*numBytes/4 + 1 cycles plus one write-back charge iff a
\* dirty block was replaced, and leaves the slot dirty under write-back and
\* clean under write-through.
C18_StoreMissWriteAllocateInstall ==
    [][ ( /\ Accessing
          /\ last'.loadStore # "l"
          /\ last'.hit = nullptr
          /\ cache.handleMiss = "write-allocate" )
        => /\ Cardinality({w \in Ways(last'.index) :
                  cache'.sets[last'.index][w].valid
                  /\ cache'.sets[last'.index][w].tag = last'.tag}) = 1
           /\ OnlySlotChanges(last'.index, TouchedWay)
           /\ (IF cache.handleEviction = "lru"
               THEN cache'.sets[last'.index][TouchedWay].access_ts
               ELSE cache'.sets[last'.index][TouchedWay].load_ts)
                 = Uint32OfInt(cache'.totalCycles)
           /\ cache'.totalCycles
                 = cache.totalCycles + (100 * cache.numBytes) \div 4 + 1
                   + (IF ReplacesDirty THEN FlushCost ELSE 0)
           /\ cache'.sets[last'.index][TouchedWay].dirty
                 = (cache.handleWrite = "write-back")
           /\ cache'.storeCount = cache.storeCount + 1
           /\ cache'.storeMisses = cache.storeMisses + 1
      ]_vars

\* 's 0x0', 's 0x10' on one 8-byte slot, write-allocate, write-back, fifo:
\* the second store replaces the dirty block of the first (201 + 200 + 201)
C18_Witness ==
    /\ IsConfig(1, 1, 8, "write-allocate", "write-back", "fifo")
    /\ trace = <<Rec("s", 0), Rec("s", 16)>>
    /\ cache.storeMisses = 2
    /\ cache.totalCycles = 602
    /\ cache.sets[0][0].valid /\ cache.sets[0][0].tag = 2 /\ cache.sets[0][0].dirty
    /\ cache.sets[0][0].load_ts = Uint32OfInt(602)

---------------------------------------------------------------------------
(* Properties of the dirty flag and of the counters *)

\* C19: between accesses a slot is dirty exactly when the write policy is
\* write-back, the slot is valid and a store (a store hit or the allocating
\* store miss) was applied to its block since the block was installed; a
\* block installed by a load is clean until a store hits it, and under
\* write-through no slot is dirty.
C19_DirtyIffStoredSinceInstall ==
    \A i \in DOMAIN cache.sets : \A w \in Ways(i) :
        cache.sets[i][w].dirty
            = ( /\ cache.handleWrite = "write-back"
                /\ cache.sets[i][w].valid
                /\ storedSince[i][w] )

\* write-back, one way: a store installs a dirty block, a load replaces it
\* with a clean one, and a store hit on that block makes it dirty
C19_Witness ==
    /\ cache.handleWrite = "write-back"
    /\ cache.numBlocks = 1
    /\ Len(trace) = 3
    /\ trace[1].loadStore = "s"
    /\ trace[2].loadStore = "l"
    /\ TraceIndex(2) = TraceIndex(1) /\ TraceTag(2) # TraceTag(1)
    /\ trace[3].loadStore = "s"
    /\ trace[3].address = trace[2].address
    /\ last.hit = 0
    /\ installedAt[last.index][0] = 2
    /\ storedSince[last.index][0]
    /\ cache.sets[last.index][0].dirty

\* the four hit and miss counters
HitMissCounters(c) == <<c.loadHits, c.loadMisses, c.storeHits, c.storeMisses>>

\* C20: loadCount = loadHits + loadMisses, storeCount = storeHits +
\* storeMisses and loadCount + storeCount is the number of records processed;
\* each access adds 1 to exactly one of the four hit and miss counters and
\* leaves the other three, a record whose character is not 'l' counting as
\* a store.
C20_CountersConsistent ==
    /\ []( /\ cache.loadCount = cache.loadHits + cache.loadMisses
           /\ cache.storeCount = cache.storeHits + cache.storeMisses
           /\ cache.loadCount + cache.storeCount = Len(trace) )
    /\ [][ Accessing =>
             /\ \E k \in 1 .. 4 :
                   /\ HitMissCounters(cache')[k] = HitMissCounters(cache)[k] + 1
                   /\ \A n \in (1 .. 4) \ {k} :
                         HitMissCounters(cache')[n] = HitMissCounters(cache)[n]
             /\ IF last'.loadStore = "l"
                THEN /\ cache'.loadCount = cache.loadCount + 1
                     /\ cache'.storeCount = cache.storeCount
                ELSE /\ cache'.storeCount = cache.storeCount + 1
                     /\ cache'.loadCount = cache.loadCount
         ]_vars

\* 'l', 'x', 's' on one address: the 'x' record is a store hit
C20_Witness ==
    /\ Len(trace) = 3
    /\ trace[1].loadStore = "l"
    /\ trace[2].loadStore = "x"
    /\ trace[3].loadStore = "s"
    /\ trace[2].address = trace[1].address
    /\ trace[3].address = trace[1].address
    /\ cache.loadCount = 1 /\ cache.loadMisses = 1
    /\ cache.storeCount = 2 /\ cache.storeHits = 2

---------------------------------------------------------------------------
(* Properties of the occupancy of the sets *)

\* C21: between accesses the valid slots of every set are its lowest ways
\* (no valid slot above an invalid one), every invalid slot still has tag 0,
\* dirty false and both timestamps 0, and a slot that is valid stays valid
\* across every access (the valid = false of a write-back is undone by the
\* install of the same access).
C21_OccupancyIsAGrowingPrefix ==
    /\ []( \A i \in DOMAIN cache.sets : \A w \in Ways(i) :
              /\ cache.sets[i][w].valid
                    => \A v \in Ways(i) : v < w => cache.sets[i][v].valid
              /\ ~cache.sets[i][w].valid
                    => /\ cache.sets[i][w].tag = 0
                       /\ ~cache.sets[i][w].dirty
                       /\ cache.sets[i][w].load_ts = Uint32(0, 0)
                       /\ cache.sets[i][w].access_ts = Uint32(0, 0) )
    /\ [][ \A i \in DOMAIN cache.sets : \A w \in Ways(i) :
              cache.sets[i][w].valid => cache'.sets[i][w].valid
         ]_vars

\* two sets of two ways, write-back: a store and another access fill one
\* set, a third access puts one block in the other set, and the fourth
\* replaces the dirty block of the store (written back, then reinstalled);
\* the other set keeps way 0 valid and way 1 as cacheSetUp left it
C21_Witness ==
    /\ cache.numSets = 2
    /\ cache.numBlocks = 2
    /\ cache.handleWrite = "write-back"
    /\ Len(trace) = 4
    /\ trace[1].loadStore = "s"
    /\ last.hit = nullptr
    /\ installedAt[last.index][0] = 4
    /\ installedAt[last.index][1] = 2
    /\ cache.sets[last.index][0].valid /\ cache.sets[last.index][0].tag = last.tag
    /\ cache.sets[last.index][1].valid
    /\ installedAt[1 - last.index][0] = 3
    /\ cache.sets[1 - last.index][0].valid
    /\ ~cache.sets[1 - last.index][1].valid
    /\ cache.totalCycles = 4 * ((100 * cache.numBytes) \div 4 + 1) + (100 * cache.numBytes) \div 4

====
